---- MODULE Spec2Model ----
(***************************************************************************)
(* Spautofy: the OAuth2 authorization-code handshake (local callback       *)
(* listener, shared SpautofyConfig behind one mutex), the token accessor   *)
(* and the config file, as a state machine.                                *)
(*                                                                         *)
(* Every HTTP handler takes the mutex on its first line and holds it to    *)
(* its return (or to exit(1)), so a handler is one atomic step.  The main  *)
(* flow is blocked in rocket.launch() until the listener has stopped.      *)
(***************************************************************************)
EXTENDS Integers, Sequences, FiniteSets, TLC

VARIABLES
  file,        \* the config file: one entry per JSON key, <<>> when the key is absent
  config,      \* Arc<Mutex<SpautofyConfig>>: <<>> before construction, else <<record>>
  pc,          \* position of the main flow
  listener,    \* "off" | "running" | "shutting_down" | "stopped" | "failed"
  exited,      \* "no", or why the process was terminated by exit(1)
  handled,     \* number of HTTP requests handled by the listener
  last,        \* the last HTTP request handled, with its response
  issued,      \* the authorization requests the /auth redirects pointed to, in order
  accepted,    \* the /callback requests that stored a code, in order
  fileWrites,  \* the writes of the config file, in order (locked: the mutex guard is
               \* alive; code: the session's user_auth_code at the write)
  notified,    \* number of shutdown.notify() calls
  tokenReqs,   \* the requests sent to the token endpoint, in order
  access,      \* the Access held by the caller of the token accessor: <<>> or <<record>>
  accResult,   \* what the last call of the token accessor returned
  meReqs,      \* number of who-am-I requests sent
  userAccess,  \* the UserAccess of main: <<>> or <<record>>
  mainResult,  \* "running" | "Ok" | the MainError main returned
  now,         \* monotonic clock, whole seconds
  calls,       \* number of calls of the token accessor made by its caller
  selected,    \* selection.selected: one flag per action
  downstream,  \* the actions create_top_track_playlist was called for, in order
  list_index,  \* selection.index: the entry under the cursor, counted from 0
  list_strings \* selection.list_strings: the lines the list displays

vars == <<file, config, pc, listener, exited, handled, last, issued, accepted,
          fileWrites, notified, tokenReqs, access, accResult, meReqs,
          userAccess, mainResult, now, calls, selected, downstream,
                 list_index, list_strings>>

\* ------------------------------------------------------------------ bounds
MaxRequests == 3      \* HTTP requests handled in one run
MaxTime == 3          \* seconds the clock may advance
MaxCalls == 3         \* calls of the token accessor in SpecToken

\* --------------------------------------------------------------- constants
DefaultPort == 3000
OtherPort == 8080

\* Option<T>
None == <<>>
Some(x) == <<x>>
IsSome(o) == o # <<>>
Unwrap(o) == o[1]

States == {"S1", "S2"}                 \* values of the 30-character random state
Codes == {"C1", "C2"}                  \* authorization codes the provider hands out
Errors == {"access_denied"}            \* provider errors
ExpiresIn == {-1, 0, 1, 2}             \* expires_in values of a token response (i32)

DefaultAddress == "127.0.0.1"
OtherAddress == "0.0.0.0"

\* the actions of the selection list and the flags it starts with
ACTION_NAMES ==
  <<"Create playlist of your short term top tracks",
    "Create playlist of your medium term top tracks",
    "Create playlist of your long term top tracks">>
DEFAULT_SELECTION == <<TRUE, TRUE, FALSE>>

\* list_format(name, is_selected)
list_format(name, is_selected) ==
  <<"[", IF is_selected THEN "X" ELSE " ", "] ", name>>

\* ActionSelectionList::new: list_strings from zip(action_names, selected)
new_list_strings(action_names, flags) ==
  [i \in 1..(IF Len(action_names) < Len(flags) THEN Len(action_names)
                                                ELSE Len(flags))
     |-> list_format(action_names[i], flags[i])]

\* what a key press is mapped to in handle_events
TuiAction == {"Quit", "Confirm", "Select", "MoveUp", "MoveDown"}

\* main reads selection.selected[0] .. selection.selected[3]
NumIfs == 4
ActionPc == <<"action0", "action1", "action2", "action3">>

\* ------------------------------------------------------------- config file
FileKeys == {"address", "port", "client_id", "client_secret",
             "user_auth_code", "random_state"}
ConfigFileKeys == {"address", "port", "client_id", "client_secret"}

\* JSON text of a file with the given keys; a key that is absent holds <<>>.
Json(address, port, client_id, client_secret, user_auth_code, random_state) ==
  [address |-> address, port |-> port, client_id |-> client_id,
   client_secret |-> client_secret, user_auth_code |-> user_auth_code,
   random_state |-> random_state]

KeysOf(f) == {k \in FileKeys : f[k] # <<>>}

\* The config files a run may start from: the optional keys omitted, both
\* given, a file without client_id (which does not parse), and the file the
\* main flow of an earlier run left behind (the six fields of its SpautofyConfig).
InitialFiles ==
  { Json(<<>>, <<>>, <<"abc">>, <<"xyz">>, <<>>, <<>>),
    Json(<<OtherAddress>>, <<OtherPort>>, <<"abc">>, <<"xyz">>, <<>>, <<>>),
    Json(<<>>, <<OtherPort>>, <<>>, <<"xyz">>, <<>>, <<>>),
    Json(<<DefaultAddress>>, <<OtherPort>>, <<"abc">>, <<"xyz">>,
         <<Some("C1")>>, <<"S1">>) }

\* serde_json::to_string_pretty(&SpautofyConfigFile): four keys, the options as values.
SerializeConfigFile(fc) ==
  Json(fc.address, fc.port, <<fc.client_id>>, <<fc.client_secret>>, <<>>, <<>>)

\* serde_json::to_string_pretty(&SpautofyConfig): all six fields of the struct;
\* an Option field is written as its value or as null, the key is always there.
SerializeConfig(c) ==
  Json(<<c.address>>, <<c.port>>, <<c.client_id>>, <<c.client_secret>>,
       <<c.user_auth_code>>, <<c.random_state>>)

\* serde_json::from_str::<SpautofyConfigFile>: unknown keys are ignored, a missing
\* Option key is None, a missing String key is an error (None here).
parse_config_file(f) ==
  IF f.client_id = <<>> \/ f.client_secret = <<>>
    THEN None
    ELSE Some([address |-> f.address, port |-> f.port,
               client_id |-> Unwrap(f.client_id),
               client_secret |-> Unwrap(f.client_secret)])

\* impl From<SpautofyConfigFile> for SpautofyConfig; rs is what random_state() drew.
FromConfigFile(fc, rs) ==
  [address |-> IF IsSome(fc.address) THEN Unwrap(fc.address) ELSE DefaultAddress,
   port |-> IF IsSome(fc.port) THEN Unwrap(fc.port) ELSE DefaultPort,
   client_id |-> fc.client_id,
   client_secret |-> fc.client_secret,
   user_auth_code |-> None,
   random_state |-> rs]

\* From<&SpautofyConfig> leaving the port out of the file
ToConfigFile_omits_port(c) ==
  [address |-> Some(c.address), port |-> None,
   client_id |-> c.client_id, client_secret |-> c.client_secret]

\* impl From<&SpautofyConfig> for SpautofyConfigFile
ToConfigFile(c) ==
  [address |-> Some(c.address), port |-> Some(c.port),
   client_id |-> c.client_id, client_secret |-> c.client_secret]

\* ------------------------------------------------------- request builders
needs_auth(c) == c.user_auth_code = None

\* redirect_url leaving the port out
redirect_url_without_port(c) == <<"http://", c.address, "/callback">>

redirect_url(c) == <<"http://", c.address, ":", c.port, "/callback">>

auth_request(c) ==
  [url |-> "https://accounts.spotify.com/authorize",
   client_id |-> c.client_id,
   response_type |-> "code",
   redirect_uri |-> redirect_url(c),
   scope |-> "user-top-read playlist-read-private playlist-modify-private",
   show_dialog |-> "true",
   state |-> c.random_state]

\* Ok(request) or Err(NoUserAuthCode)
access_token_request(c) ==
  IF c.user_auth_code = None
    THEN [ok |-> FALSE, err |-> "NoUserAuthCode"]
    ELSE [ok |-> TRUE,
          req |-> [url |-> "https://accounts.spotify.com/api/token",
                   grant_type |-> "authorization_code",
                   code |-> Unwrap(c.user_auth_code),
                   redirect_uri |-> redirect_url(c),
                   basic_auth |-> <<c.client_id, c.client_secret>>]]

\* elapsed > (x as u64), for x: i32.  The cast sign-extends: a negative x becomes
\* 2^64 + x >= 2^64 - 2^31, which no elapsed time of a run exceeds.
ExceedsAsU64(elapsed, x) == IF x < 0 THEN FALSE ELSE elapsed > x

\* Access::is_expired, at clock value t
is_expired(a, t) == ExceedsAsU64(t - a.received_at, a.expires_in)

Cfg == Unwrap(config)

NoRequest ==
  [route |-> "none", state |-> "", code |-> None, error |-> None,
   resp |-> "none", loc |-> ""]

NoResult ==
  [kind |-> "none", err |-> "", access |-> None, sent |-> FALSE,
   old |-> None, resp |-> "none"]

\* What the token endpoint may answer: the request is not delivered, the body is a
\* provider error object, the connection drops while the body is read, or the body
\* is a token set.
Responses ==
  { [kind |-> k, expires_in |-> 0] : k \in {"send_failed", "error_body", "body_cut"} }
    \cup { [kind |-> "token", expires_in |-> e] : e \in ExpiresIn }

\* ---------------------------------------------------------------- initial
Init ==
  /\ file \in InitialFiles
  /\ config = None
  /\ pc = "select"
  /\ listener = "off"
  /\ exited = "no"
  /\ handled = 0
  /\ last = NoRequest
  /\ issued = <<>>
  /\ accepted = <<>>
  /\ fileWrites = <<>>
  /\ notified = 0
  /\ tokenReqs = <<>>
  /\ access = None
  /\ accResult = NoResult
  /\ meReqs = 0
  /\ userAccess = None
  /\ mainResult = "running"
  /\ now = 0
  /\ calls = 0
  /\ selected = DEFAULT_SELECTION
  /\ downstream = <<>>
  /\ list_index = 0
  /\ list_strings = new_list_strings(ACTION_NAMES, DEFAULT_SELECTION)

\* The process is alive: no handler called exit(1) and main has not returned.
Alive == exited = "no" /\ mainResult = "running"

\* The listener serves requests: from launch until it has stopped.  Requests
\* already in flight when shutdown is notified are still handled.
Serving ==
  /\ Alive
  /\ listener \in {"running", "shutting_down"}
  /\ handled < MaxRequests

Response(route, st, code, error, resp, loc) ==
  [route |-> route, state |-> st, code |-> code, error |-> error,
   resp |-> resp, loc |-> loc]

\* -------------------------------------------------------------- handlers
\* index taking a user_auth_code left in the config file for a captured code
index_trusts_file ==
  /\ Serving
  /\ handled' = handled + 1
  /\ last' = Response("/", "", None, None, "redirect",
                      IF IsSome(Cfg.user_auth_code) \/ file.user_auth_code # <<>>
                        THEN "/done" ELSE "/auth")
  /\ UNCHANGED <<file, config, pc, listener, exited, issued, accepted, fileWrites,
                 notified, tokenReqs, access, accResult, meReqs, userAccess,
                 mainResult, now, calls, selected, downstream,
                 list_index, list_strings>>

\* GET /
index ==
  /\ Serving
  /\ handled' = handled + 1
  /\ last' = Response("/", "", None, None, "redirect",
                      IF IsSome(Cfg.user_auth_code) THEN "/done" ELSE "/auth")
  /\ UNCHANGED <<file, config, pc, listener, exited, issued, accepted, fileWrites,
                 notified, tokenReqs, access, accResult, meReqs, userAccess,
                 mainResult, now, calls, selected, downstream,
                 list_index, list_strings>>

\* auth drawing a new random_state for every redirect
auth_regenerates ==
  /\ Serving
  /\ handled' = handled + 1
  /\ \E rs \in States :
       /\ config' = Some([Cfg EXCEPT !.random_state = rs])
       /\ issued' = Append(issued, auth_request([Cfg EXCEPT !.random_state = rs]))
  /\ last' = Response("/auth", "", None, None, "redirect", "provider")
  /\ UNCHANGED <<file, pc, listener, exited, accepted, fileWrites,
                 notified, tokenReqs, access, accResult, meReqs, userAccess,
                 mainResult, now, calls, selected, downstream,
                 list_index, list_strings>>

\* GET /auth
auth ==
  /\ Serving
  /\ handled' = handled + 1
  /\ issued' = Append(issued, auth_request(Cfg))
  /\ last' = Response("/auth", "", None, None, "redirect", "provider")
  /\ UNCHANGED <<file, config, pc, listener, exited, accepted, fileWrites,
                 notified, tokenReqs, access, accResult, meReqs, userAccess,
                 mainResult, now, calls, selected, downstream,
                 list_index, list_strings>>

\* callback: eprintln!(..); exit(1) with the mutex held
callback_exit(st, code, error, why) ==
  /\ exited' = why
  /\ last' = Response("/callback", st, code, error, "exit", "")
  /\ UNCHANGED <<config, accepted>>

\* callback: config.user_auth_code = code; Redirect::to("/done")
callback_store(st, code, error) ==
  /\ config' = Some([Cfg EXCEPT !.user_auth_code = code])
  /\ accepted' = Append(accepted, [state |-> st, code |-> code])
  /\ last' = Response("/callback", st, code, error, "redirect", "/done")
  /\ UNCHANGED exited

\* what callback leaves alone
callback_frame ==
  /\ handled' = handled + 1
  /\ UNCHANGED <<file, pc, listener, issued, fileWrites, notified, tokenReqs,
                 access, accResult, meReqs, userAccess, mainResult, now, calls, selected, downstream,
                 list_index, list_strings>>

\* callback without the comparison of state with random_state
callback_state_unchecked(st, code, error) ==
  /\ Serving
  /\ callback_frame
  /\ IF IsSome(error) THEN callback_exit(st, code, error, "UserAuthenticationError")
     ELSE IF IsSome(code) THEN callback_store(st, code, error)
     ELSE callback_exit(st, code, error, "NoCodeOrError")

\* callback looking at code before error
callback_code_before_error(st, code, error) ==
  /\ Serving
  /\ callback_frame
  /\ IF st # Cfg.random_state THEN callback_exit(st, code, error, "InvalidState")
     ELSE IF IsSome(code) THEN callback_store(st, code, error)
     ELSE IF IsSome(error)
       THEN callback_exit(st, code, error, "UserAuthenticationError")
     ELSE callback_exit(st, code, error, "NoCodeOrError")

\* callback storing whatever code it got, an absent one included
callback_stores_absent_code(st, code, error) ==
  /\ Serving
  /\ callback_frame
  /\ IF st # Cfg.random_state THEN callback_exit(st, code, error, "InvalidState")
     ELSE IF IsSome(error)
       THEN callback_exit(st, code, error, "UserAuthenticationError")
     ELSE callback_store(st, code, error)

\* GET /callback?<state>&<code>&<error>
callback(st, code, error) ==
  /\ Serving
  /\ callback_frame
  /\ IF st # Cfg.random_state THEN callback_exit(st, code, error, "InvalidState")
     ELSE IF IsSome(error)
       THEN callback_exit(st, code, error, "UserAuthenticationError")
     ELSE IF IsSome(code) THEN callback_store(st, code, error)
     ELSE callback_exit(st, code, error, "NoCodeOrError")

\* done taking the code out of the session once the file is written
done_consumes_code(writeOk) ==
  /\ Serving
  /\ handled' = handled + 1
  /\ IF Cfg.user_auth_code = None
       THEN /\ last' = Response("/done", "", None, None, "redirect", "/auth")
            /\ UNCHANGED <<file, fileWrites, exited, notified, listener, config>>
       ELSE LET text == SerializeConfigFile(ToConfigFile(Cfg)) IN
            /\ fileWrites' = Append(fileWrites,
                  [by |-> "done", listener |-> listener, notified |-> notified,
                   ok |-> writeOk, content |-> text, locked |-> TRUE,
                   code |-> Cfg.user_auth_code])
            /\ IF writeOk
                 THEN /\ file' = text
                      /\ notified' = notified + 1
                      /\ listener' = "shutting_down"
                      /\ config' = Some([Cfg EXCEPT !.user_auth_code = None])
                      /\ last' = Response("/done", "", None, None, "ok", "")
                      /\ UNCHANGED exited
                 ELSE /\ exited' = "WriteError"
                      /\ last' = Response("/done", "", None, None, "exit", "")
                      /\ UNCHANGED <<file, notified, listener, config>>
  /\ UNCHANGED <<pc, issued, accepted, tokenReqs, access, accResult,
                 meReqs, userAccess, mainResult, now, calls, selected, downstream,
                 list_index, list_strings>>

\* done answering without shutdown.notify()
done_without_notify(writeOk) ==
  /\ Serving
  /\ handled' = handled + 1
  /\ IF Cfg.user_auth_code = None
       THEN /\ last' = Response("/done", "", None, None, "redirect", "/auth")
            /\ UNCHANGED <<file, fileWrites, exited>>
       ELSE LET text == SerializeConfigFile(ToConfigFile(Cfg)) IN
            /\ fileWrites' = Append(fileWrites,
                  [by |-> "done", listener |-> listener, notified |-> notified,
                   ok |-> writeOk, content |-> text, locked |-> TRUE,
                   code |-> Cfg.user_auth_code])
            /\ IF writeOk
                 THEN /\ file' = text
                      /\ last' = Response("/done", "", None, None, "ok", "")
                      /\ UNCHANGED exited
                 ELSE /\ exited' = "WriteError"
                      /\ last' = Response("/done", "", None, None, "exit", "")
                      /\ UNCHANGED file
  /\ UNCHANGED <<config, pc, issued, accepted, tokenReqs, access, accResult,
                 meReqs, userAccess, mainResult, now, calls, selected, downstream,
                 notified, listener, list_index, list_strings>>

\* GET /done; writeOk is whether std::fs::write succeeds
done(writeOk) ==
  /\ Serving
  /\ handled' = handled + 1
  /\ IF Cfg.user_auth_code = None
       THEN /\ last' = Response("/done", "", None, None, "redirect", "/auth")
            /\ UNCHANGED <<file, fileWrites, exited, notified, listener>>
       ELSE LET text == SerializeConfigFile(ToConfigFile(Cfg)) IN
            /\ fileWrites' = Append(fileWrites,
                  [by |-> "done", listener |-> listener, notified |-> notified,
                   ok |-> writeOk, content |-> text, locked |-> TRUE,
                   code |-> Cfg.user_auth_code])
            /\ IF writeOk
                 THEN /\ file' = text
                      /\ notified' = notified + 1
                      /\ listener' = "shutting_down"
                      /\ last' = Response("/done", "", None, None, "ok", "")
                      /\ UNCHANGED exited
                 ELSE /\ exited' = "WriteError"
                      /\ last' = Response("/done", "", None, None, "exit", "")
                      /\ UNCHANGED <<file, notified, listener>>
  /\ UNCHANGED <<config, pc, issued, accepted, tokenReqs, access, accResult,
                 meReqs, userAccess, mainResult, now, calls, selected, downstream,
                 list_index, list_strings>>

\* The listener has finished its graceful shutdown: rocket.launch() returns.
listener_stops ==
  /\ Alive
  /\ listener = "shutting_down"
  /\ listener' = "stopped"
  /\ UNCHANGED <<file, config, pc, exited, handled, last, issued, accepted,
                 fileWrites, notified, tokenReqs, access, accResult, meReqs,
                 userAccess, mainResult, now, calls, selected, downstream,
                 list_index, list_strings>>

\* ------------------------------------------------------- token accessor
Result(kind, err, acc, sent, old, resp) ==
  [kind |-> kind, err |-> err, access |-> acc, sent |-> sent, old |-> old,
   resp |-> resp]

\* resp.json::<Access>(): the Access of a token body, received_at = Instant::now()
ParseAccess(resp, n) ==
  [access_token |-> <<"AT", n>>, refresh_token |-> <<"RT", n>>,
   expires_in |-> resp.expires_in, received_at |-> now]

\* execute_and_parse reporting every failure as RequestError
execute_and_parse_one_error(old, resp, n) ==
  IF resp.kind = "token"
    THEN Result("Ok", "", Some(ParseAccess(resp, n)), TRUE, old, resp.kind)
    ELSE Result("Err", "RequestError", None, TRUE, old, resp.kind)

\* try_get_access_token, from execute on: the n-th request was sent and the
\* endpoint did resp.  A failure of execute is RequestError (the ? operator);
\* any failure of resp.json::<Access>() is ExpiredUserCode.
execute_and_parse(old, resp, n) ==
  IF resp.kind = "send_failed"
    THEN Result("Err", "RequestError", None, TRUE, old, resp.kind)
  ELSE IF resp.kind = "token"
    THEN Result("Ok", "", Some(ParseAccess(resp, n)), TRUE, old, resp.kind)
  ELSE Result("Err", "ExpiredUserCode", None, TRUE, old, resp.kind)

\* try_get_access_token that asks the endpoint whenever it is called with a code
try_get_access_token_always_asks(old, resp) ==
  IF Cfg.user_auth_code = None
    THEN /\ accResult' = Result("Err", "NoUserAuthCode", None, FALSE, old, "none")
         /\ UNCHANGED tokenReqs
    ELSE /\ tokenReqs' = Append(tokenReqs, access_token_request(Cfg).req)
         /\ accResult' = execute_and_parse(old, resp, Len(tokenReqs) + 1)

\* try_get_access_token without either check of user_auth_code: the request is
\* built and sent with whatever the session holds
try_get_access_token_sends_without_code(old, resp) ==
  IF IsSome(old) /\ ~is_expired(Unwrap(old), now)
    THEN /\ accResult' = Result("Ok", "", old, FALSE, old, "none")
         /\ UNCHANGED tokenReqs
    ELSE /\ tokenReqs' = Append(tokenReqs,
                            [url |-> "https://accounts.spotify.com/api/token",
                             grant_type |-> "authorization_code",
                             code |-> Cfg.user_auth_code,
                             redirect_uri |-> redirect_url(Cfg),
                             basic_auth |-> <<Cfg.client_id, Cfg.client_secret>>])
         /\ accResult' = execute_and_parse(old, resp, Len(tokenReqs) + 1)

\* try_get_access_token(config, old_access); resp is what the token endpoint does
\* with the request if one is sent.  Sets accResult to the value returned.
try_get_access_token(old, resp) ==
  IF Cfg.user_auth_code = None
    THEN /\ accResult' = Result("Err", "NoUserAuthCode", None, FALSE, old, "none")
         /\ UNCHANGED tokenReqs
  ELSE IF IsSome(old) /\ ~is_expired(Unwrap(old), now)
    THEN /\ accResult' = Result("Ok", "", old, FALSE, old, "none")
         /\ UNCHANGED tokenReqs
  ELSE LET built == access_token_request(Cfg) IN
       IF ~built.ok
         THEN /\ accResult' = Result("Err", built.err, None, FALSE, old, "none")
              /\ UNCHANGED tokenReqs
         ELSE /\ tokenReqs' = Append(tokenReqs, built.req)
              /\ accResult' = execute_and_parse(old, resp, Len(tokenReqs) + 1)

get_access_token(resp) == try_get_access_token(None, resp)

\* ------------------------------------------------------------- main flow
\* ActionSelectionList::select
select ==
  /\ selected' = [selected EXCEPT ![list_index + 1] = ~@]
  /\ list_strings' =
       [list_strings EXCEPT ![list_index + 1] =
          list_format(ACTION_NAMES[list_index + 1], selected'[list_index + 1])]
  /\ UNCHANGED list_index

\* ActionSelectionList::previous
previous ==
  /\ list_index' = IF list_index > 0 THEN list_index - 1 ELSE list_index
  /\ UNCHANGED <<selected, list_strings>>

\* next moving the cursor down whatever entry it is on
next_unguarded ==
  /\ list_index' = list_index + 1
  /\ UNCHANGED <<selected, list_strings>>

\* ActionSelectionList::next
next ==
  /\ list_index' = IF list_index < Len(ACTION_NAMES) - 1 THEN list_index + 1
                                                          ELSE list_index
  /\ UNCHANGED <<selected, list_strings>>

\* select_actions leaving its loop and the match on its result in main: the
\* list is confirmed as it stands, or canceled (main returns Ok(())).
main_select_actions(confirmed) ==
  /\ IF confirmed
       THEN /\ pc' = "parse"
            /\ UNCHANGED mainResult
       ELSE /\ mainResult' = "Ok"
            /\ pc' = "end"
  /\ UNCHANGED <<selected, list_index, list_strings>>

\* One turn of the loop of select_actions in which handle_events reads a key
\* press mapped to the TuiAction a.  (A turn without a key press, or with a key
\* that is not mapped, changes nothing.)
handle_events(a) ==
  /\ Alive
  /\ pc = "select"
  /\ IF a = "Quit" THEN main_select_actions(FALSE)
     ELSE IF a = "Confirm" THEN main_select_actions(TRUE)
     ELSE /\ IF a = "Select" THEN select
             ELSE IF a = "MoveUp" THEN previous
             ELSE next
          /\ UNCHANGED <<pc, mainResult>>
  /\ UNCHANGED <<file, config, listener, exited, handled, last, issued, accepted,
                 fileWrites, notified, tokenReqs, access, accResult, meReqs,
                 userAccess, now, calls, downstream>>

\* main: parse_config_file, then authorize builds the shared config
main_parse_config ==
  /\ Alive
  /\ pc = "parse"
  /\ LET fc == parse_config_file(file) IN
       IF fc = None
         THEN /\ exited' = "ConfigFile"
              /\ UNCHANGED <<config, pc>>
         ELSE /\ \E rs \in States : config' = Some(FromConfigFile(Unwrap(fc), rs))
              /\ pc' = "launch"
              /\ UNCHANGED exited
  /\ UNCHANGED <<file, listener, handled, last, issued, accepted, fileWrites,
                 notified, tokenReqs, access, accResult, meReqs, userAccess,
                 mainResult, now, calls, selected, downstream,
                 list_index, list_strings>>

\* user_authorization: ignite and launch the listener; launched is whether
\* rocket could bind and start
user_authorization(launched) ==
  /\ Alive
  /\ pc = "launch"
  /\ IF launched
       THEN /\ listener' = "running"
            /\ pc' = "waiting"
            /\ UNCHANGED mainResult
       ELSE /\ listener' = "failed"
            /\ pc' = "end"
            /\ mainResult' = "Rocket"
  /\ UNCHANGED <<file, config, exited, handled, last, issued, accepted,
                 fileWrites, notified, tokenReqs, access, accResult, meReqs,
                 userAccess, now, calls, selected, downstream,
                 list_index, list_strings>>

\* user_authorization returning while the listener still serves requests
user_authorization_returns_early ==
  /\ Alive
  /\ pc = "waiting"
  /\ listener \in {"running", "shutting_down", "stopped"}
  /\ pc' = "exchange"
  /\ UNCHANGED <<file, config, listener, exited, handled, last, issued, accepted,
                 fileWrites, notified, tokenReqs, access, accResult, meReqs,
                 userAccess, mainResult, now, calls, selected, downstream,
                 list_index, list_strings>>

\* rocket.launch().await returns once the listener has stopped
user_authorization_returns ==
  /\ Alive
  /\ pc = "waiting"
  /\ listener = "stopped"
  /\ pc' = "exchange"
  /\ UNCHANGED <<file, config, listener, exited, handled, last, issued, accepted,
                 fileWrites, notified, tokenReqs, access, accResult, meReqs,
                 userAccess, mainResult, now, calls, selected, downstream,
                 list_index, list_strings>>

\* authorize asking the token endpoint again after a failed exchange
authorize_get_access_token_retries(resp) ==
  /\ Alive
  /\ pc = "exchange"
  /\ get_access_token(resp)
  /\ IF accResult'.kind = "Ok"
       THEN /\ access' = accResult'.access
            /\ pc' = "whoami"
       ELSE UNCHANGED <<access, pc>>
  /\ UNCHANGED <<file, config, listener, exited, handled, last, issued, accepted,
                 fileWrites, notified, meReqs, userAccess, mainResult, now, calls,
                 selected, downstream,
                 list_index, list_strings>>

\* authorize: get_access_token(config).await?
authorize_get_access_token(resp) ==
  /\ Alive
  /\ pc = "exchange"
  /\ get_access_token(resp)
  /\ IF accResult'.kind = "Ok"
       THEN /\ access' = accResult'.access
            /\ pc' = "whoami"
            /\ UNCHANGED mainResult
       ELSE /\ mainResult' = accResult'.err
            /\ pc' = "end"
            /\ UNCHANGED access
  /\ UNCHANGED <<file, config, listener, exited, handled, last, issued, accepted,
                 fileWrites, notified, meReqs, userAccess, now, calls, selected, downstream,
                 list_index, list_strings>>

\* authorize going on to the actions although GET /me gave no User
authorize_get_user_access_proceeds(ok) ==
  /\ Alive
  /\ pc = "whoami"
  /\ meReqs' = meReqs + 1
  /\ userAccess' = IF ok THEN Some([access |-> Unwrap(access), user |-> "user"])
                         ELSE userAccess
  /\ pc' = "write"
  /\ UNCHANGED <<file, config, listener, exited, handled, last, issued, accepted,
                 fileWrites, notified, tokenReqs, access, accResult, mainResult,
                 now, calls, selected, downstream,
                 list_index, list_strings>>

\* authorize: get_user_access(access).await?; ok is whether GET /me answered a User
authorize_get_user_access(ok) ==
  /\ Alive
  /\ pc = "whoami"
  /\ meReqs' = meReqs + 1
  /\ IF ok
       THEN /\ userAccess' = Some([access |-> Unwrap(access), user |-> "user"])
            /\ pc' = "write"
            /\ UNCHANGED mainResult
       ELSE /\ mainResult' = "RequestError"
            /\ pc' = "end"
            /\ UNCHANGED userAccess
  /\ UNCHANGED <<file, config, listener, exited, handled, last, issued, accepted,
                 fileWrites, notified, tokenReqs, access, accResult, now, calls, selected, downstream,
                 list_index, list_strings>>

\* main: let _ = std::fs::write(config_path, to_string_pretty(&config))
main_write_config(writeOk) ==
  /\ Alive
  /\ pc = "write"
  /\ LET text == SerializeConfig(Cfg) IN
       /\ fileWrites' = Append(fileWrites,
             [by |-> "main", listener |-> listener, notified |-> notified,
              ok |-> writeOk, content |-> text, locked |-> FALSE,
              code |-> Cfg.user_auth_code])
       /\ file' = IF writeOk THEN text ELSE file
  /\ pc' = ActionPc[1]
  /\ UNCHANGED <<config, listener, exited, handled, last, issued, accepted,
                 notified, tokenReqs, access, accResult, meReqs, userAccess,
                 mainResult, now, calls, selected, downstream,
                 list_index, list_strings>>

\* main: the i-th of the four ifs on selection.selected[i], i = 0..3.  Reading an
\* index that is not below selected.len() panics.  For i < 3 a set flag calls
\* create_top_track_playlist(&user_access, range).await?; ok is whether it
\* returns Ok.  After the last if main returns Ok(()).
main_action(i, ok) ==
  /\ Alive
  /\ pc = ActionPc[i + 1]
  /\ IF i >= Len(selected)
       THEN /\ mainResult' = "Panic"
            /\ pc' = "end"
            /\ UNCHANGED downstream
     ELSE IF selected[i + 1] /\ i < Len(ACTION_NAMES) /\ ~ok
       THEN /\ downstream' = Append(downstream, ACTION_NAMES[i + 1])
            /\ mainResult' = "RequestError"
            /\ pc' = "end"
     ELSE /\ downstream' = IF selected[i + 1] /\ i < Len(ACTION_NAMES)
                              THEN Append(downstream, ACTION_NAMES[i + 1])
                              ELSE downstream
          /\ IF i + 1 < NumIfs
               THEN pc' = ActionPc[i + 2] /\ UNCHANGED mainResult
               ELSE pc' = "end" /\ mainResult' = "Ok"
  /\ UNCHANGED <<file, config, listener, exited, handled, last, issued, accepted,
                 fileWrites, notified, tokenReqs, access, accResult, meReqs,
                 userAccess, now, calls, selected, list_index, list_strings>>

Next ==
  \/ \E a \in TuiAction : handle_events(a)
  \/ main_parse_config
  \/ \E launched \in BOOLEAN : user_authorization(launched)
  \/ index
  \/ auth
  \/ \E st \in States, code \in {None} \cup {Some(c) : c \in Codes},
        error \in {None} \cup {Some(e) : e \in Errors} : callback(st, code, error)
  \/ \E writeOk \in BOOLEAN : done(writeOk)
  \/ listener_stops
  \/ user_authorization_returns
  \/ \E resp \in Responses : authorize_get_access_token(resp)
  \/ \E ok \in BOOLEAN : authorize_get_user_access(ok)
  \/ \E writeOk \in BOOLEAN : main_write_config(writeOk)
  \/ \E i \in 0..(NumIfs - 1), ok \in BOOLEAN : main_action(i, ok)

Spec == Init /\ [][Next]_vars

\* The run under fair scheduling of what the program does on its own: the
\* graceful shutdown of the listener completes, rocket.launch().await returns,
\* and the main flow goes on to get_access_token.  Requests of the browser and
\* the choices of the user are not forced.
SpecFair ==
  /\ Spec
  /\ WF_vars(listener_stops)
  /\ WF_vars(user_authorization_returns)
  /\ WF_vars(\E resp \in Responses : authorize_get_access_token(resp))

\* ---------------------------------------------- the token accessor alone
\* A holder of the shared config that calls the accessor as it is written to be
\* called: first without a TokenSet, afterwards with the TokenSet it holds, while
\* time passes.  It starts where authorize calls get_access_token (the listener
\* has stopped), with or without a code in the session.
InitToken ==
  /\ file \in {f \in InitialFiles : parse_config_file(f) # None}
  /\ \E rs \in States, code \in {None} \cup {Some(c) : c \in Codes} :
       config = Some([FromConfigFile(Unwrap(parse_config_file(file)), rs)
                        EXCEPT !.user_auth_code = code])
  /\ pc = "token"
  /\ listener = "stopped"
  /\ exited = "no"
  /\ handled = 0
  /\ last = NoRequest
  /\ issued = <<>>
  /\ accepted = <<>>
  /\ fileWrites = <<>>
  /\ notified = 0
  /\ tokenReqs = <<>>
  /\ access = None
  /\ accResult = NoResult
  /\ meReqs = 0
  /\ userAccess = None
  /\ mainResult = "running"
  /\ now = 0
  /\ calls = 0
  /\ selected = DEFAULT_SELECTION
  /\ downstream = <<>>
  /\ list_index = 0
  /\ list_strings = new_list_strings(ACTION_NAMES, DEFAULT_SELECTION)

\* one second passes
tick ==
  /\ now < MaxTime
  /\ now' = now + 1
  /\ UNCHANGED <<file, config, pc, listener, exited, handled, last, issued,
                 accepted, fileWrites, notified, tokenReqs, access, accResult,
                 meReqs, userAccess, mainResult, calls, selected, downstream,
                 list_index, list_strings>>

\* access = try_get_access_token(config, access).await, keeping the old TokenSet
\* when the call returns an error
token_accessor_call(resp) ==
  /\ pc = "token"
  /\ calls < MaxCalls
  /\ calls' = calls + 1
  /\ try_get_access_token(access, resp)
  /\ access' = IF accResult'.kind = "Ok" THEN accResult'.access ELSE access
  /\ UNCHANGED <<file, config, pc, listener, exited, handled, last, issued,
                 accepted, fileWrites, notified, meReqs, userAccess, mainResult,
                 now, selected, downstream,
                 list_index, list_strings>>

NextToken ==
  \/ tick
  \/ \E resp \in Responses : token_accessor_call(resp)

SpecToken == InitToken /\ [][NextToken]_vars

\* =================================================================== claims

\* the step is the handling of one /callback request
CallbackStep == handled' = handled + 1 /\ last'.route = "/callback"

\* the process has been terminated: nothing changes any more
Halted == UNCHANGED vars

\* C1: a /callback whose state differs from the session's correlation token aborts
\* the process (exit(1), "InvalidState") and stores nothing: the session (code and
\* token) is unchanged by it, it is not recorded as accepted, and no file write,
\* shutdown signal, listener change or token request happens in it or after it.
C1_StateMismatchAborts ==
  [][ /\ (CallbackStep /\ last'.state # Cfg.random_state)
          => /\ exited' = "InvalidState"
             /\ last'.resp = "exit"
             /\ UNCHANGED <<config, accepted, file, fileWrites, notified,
                            listener, tokenReqs, pc>>
      /\ (exited = "InvalidState") => Halted ]_vars

\* C1 witness: a mismatching callback that carried a code was handled after an
\* /auth redirect
C1_Witness ==
  /\ exited = "InvalidState"
  /\ IsSome(last.code)
  /\ last.state # Cfg.random_state
  /\ issued # <<>>

C3_TokenSingleUse ==
  /\ \A i, j \in DOMAIN accepted :
       i # j => accepted[i].state # accepted[j].state
  /\ accepted # <<>> => Cfg.user_auth_code = accepted[1].code

\* C4: a /callback with the session's token and an error parameter aborts the
\* process ("UserAuthenticationError") with or without a code parameter: the
\* session is unchanged, nothing is written or signalled, no token request has
\* been sent at that point and nothing happens afterwards.
C4_ProviderErrorAborts ==
  [][ /\ (CallbackStep /\ last'.state = Cfg.random_state /\ IsSome(last'.error))
          => /\ exited' = "UserAuthenticationError"
             /\ last'.resp = "exit"
             /\ tokenReqs' = <<>>
             /\ UNCHANGED <<config, accepted, file, fileWrites, notified,
                            listener, tokenReqs, pc>>
      /\ (exited = "UserAuthenticationError") => Halted ]_vars

\* C4 witness: a callback with matching state, an error and also a code was handled
C4_Witness ==
  /\ exited = "UserAuthenticationError"
  /\ last.state = Cfg.random_state
  /\ IsSome(last.error)
  /\ IsSome(last.code)

\* C5: a /callback with the session's token and neither code nor error aborts
\* the process ("NoCodeOrError"): the session's code is unchanged (absent if it
\* was absent), no redirect to /done is answered, and nothing happens afterwards.
C5_MissingCodeAndErrorAborts ==
  [][ /\ (/\ CallbackStep
          /\ last'.state = Cfg.random_state
          /\ last'.code = None
          /\ last'.error = None)
          => /\ exited' = "NoCodeOrError"
             /\ last'.resp = "exit"
             /\ last'.loc # "/done"
             /\ UNCHANGED <<config, accepted, file, fileWrites, notified,
                            listener, tokenReqs, pc>>
      /\ (exited = "NoCodeOrError") => Halted ]_vars

\* C5 witness: such a callback was handled while no code was stored
C5_Witness ==
  /\ exited = "NoCodeOrError"
  /\ last.state = Cfg.random_state
  /\ last.code = None
  /\ last.error = None
  /\ Cfg.user_auth_code = None

\* the handshake state of the spec's state machine, from the session and the
\* number of shutdown signals
HandshakeState(cfg, n) ==
  IF n > 0 THEN "PersistedAndShuttingDown"
  ELSE IF cfg # None /\ IsSome(Unwrap(cfg).user_auth_code) THEN "CodeReceived"
  ELSE "NoCode"

\* C6: the handshake moves NoCode -> CodeReceived -> PersistedAndShuttingDown
\* only; shutdown is signalled only by a /done request handled while a code is
\* stored, whose write of the config file succeeded; the listener leaves
\* "running" only once shutdown has been signalled; and a token request is sent
\* only when the listener has stopped, the handshake being complete.
C6_HandshakeOrder ==
  [][ /\ HandshakeState(config', notified') # HandshakeState(config, notified)
          => <<HandshakeState(config, notified), HandshakeState(config', notified')>>
               \in { <<"NoCode", "CodeReceived">>,
                     <<"CodeReceived", "PersistedAndShuttingDown">> }
      /\ notified' # notified
          => /\ last'.route = "/done"
             /\ IsSome(Cfg.user_auth_code)
             /\ Len(fileWrites') = Len(fileWrites) + 1
             /\ fileWrites'[Len(fileWrites')].ok
             /\ fileWrites'[Len(fileWrites')].by = "done"
             /\ file' = fileWrites'[Len(fileWrites')].content
      /\ (listener' # listener /\ listener' \in {"shutting_down", "stopped"})
          => notified' > 0
      /\ tokenReqs' # tokenReqs
          => /\ listener = "stopped"
             /\ HandshakeState(config, notified) = "PersistedAndShuttingDown"
             /\ IsSome(Cfg.user_auth_code) ]_vars

\* C6 witness: the token request was sent after a complete handshake
C6_Witness ==
  /\ tokenReqs # <<>>
  /\ listener = "stopped"
  /\ notified > 0
  /\ accepted # <<>>

\* C7 as stated: the config file is written at most once in a run, by /done,
\* and only once the listener has begun shutting down; neither a repeated /done
\* nor the main flow writes it again.
C7_WrittenOncePerHandshake ==
  /\ Len(fileWrites) <= 1
  /\ \A i \in DOMAIN fileWrites :
       /\ fileWrites[i].by = "done"
       /\ fileWrites[i].listener = "shutting_down"

\* C8 as stated: every text the program writes to the config file holds only
\* the keys address, port, client_id and client_secret.
C8_FileHoldsOnlyConfigKeys ==
  \A i \in DOMAIN fileWrites :
    KeysOf(fileWrites[i].content) \subseteq ConfigFileKeys

\* C9 as stated: a request sent by a call that was handed a TokenSet (a refresh
\* of an expired TokenSet) is built from that TokenSet's refresh token and does
\* not carry the stored authorization code again.
C9_RefreshNeverResendsCode ==
  (accResult.sent /\ IsSome(accResult.old))
    => LET r == tokenReqs[Len(tokenReqs)] IN
       /\ r.grant_type = "refresh_token"
       /\ r.code # Unwrap(Cfg.user_auth_code)

AccessorStep == calls' = calls + 1

\* C11: a call of the token accessor with a current TokenSet whose age does not
\* exceed its expires_in is a pure read: no request is sent, the value returned
\* is that same TokenSet, and neither the session nor the TokenSet held nor
\* anything else of the run changes.
C11_NonExpiredIsPureRead ==
  [][ (/\ AccessorStep
       /\ IsSome(access)
       /\ now - Unwrap(access).received_at <= Unwrap(access).expires_in)
        => /\ tokenReqs' = tokenReqs
           /\ accResult'.kind = "Ok"
           /\ accResult'.access = access
           /\ ~accResult'.sent
           /\ access' = access
           /\ UNCHANGED <<file, config, listener, exited, fileWrites, notified,
                          meReqs, userAccess>> ]_vars

\* C11 witness: a second call, made with the TokenSet of the first while it was
\* still current, returned it without a request
C11_Witness ==
  /\ calls >= 2
  /\ Len(tokenReqs) = 1
  /\ IsSome(accResult.old)
  /\ accResult.old = access
  /\ now - Unwrap(access).received_at <= Unwrap(access).expires_in
  /\ accResult.kind = "Ok"
  /\ ~accResult.sent

\* C12: while the session holds no authorization code, every call of the
\* exchange fails with NoUserAuthCode and no request is ever sent; this is so
\* after the listener has stopped as well.
C12_NoCodeNoRequest ==
  Cfg.user_auth_code = None
    => /\ tokenReqs = <<>>
       /\ access = None
       /\ calls > 0 => /\ accResult.kind = "Err"
                       /\ accResult.err = "NoUserAuthCode"
                       /\ ~accResult.sent

\* C12 witness: the listener has stopped, the session holds no code, and the
\* exchange was called
C12_Witness ==
  /\ listener = "stopped"
  /\ Cfg.user_auth_code = None
  /\ calls > 0
  /\ accResult.err = "NoUserAuthCode"

\* C13 as stated: for the TokenSet held, is_expired is (now - received_at >
\* expires_in) in whole seconds, for every expires_in of the i32 field.
C13_ExpiredIffElapsedExceeds ==
  IsSome(access) =>
    (is_expired(Unwrap(access), now)
       <=> now - Unwrap(access).received_at > Unwrap(access).expires_in)

\* the config a run builds from the file text f (rs: the state it draws)
Reload(f, rs) == FromConfigFile(Unwrap(parse_config_file(f)), rs)

\* the four persisted fields agree
SameConfig(a, b) ==
  /\ a.client_id = b.client_id
  /\ a.client_secret = b.client_secret
  /\ a.address = b.address
  /\ a.port = b.port

\* C14: once the config is built, the config file and every text written to it
\* (by /done and by main) parse, and reloading them rebuilds the client_id,
\* client_secret, address and port of the running config; an address or port
\* the file omits is 127.0.0.1 or 3000 in the config, and one it gives is kept.
C14_ConfigRoundTrip ==
  config # None =>
    /\ parse_config_file(file) # None
    /\ \A rs \in States : SameConfig(Reload(file, rs), Cfg)
    /\ \A i \in DOMAIN fileWrites :
         /\ parse_config_file(fileWrites[i].content) # None
         /\ \A rs \in States : SameConfig(Reload(fileWrites[i].content, rs), Cfg)
    /\ Cfg.address = IF file.address = <<>> THEN DefaultAddress
                                           ELSE Unwrap(file.address)
    /\ Cfg.port = IF file.port = <<>> THEN DefaultPort ELSE Unwrap(file.port)
    /\ Cfg.client_id = Unwrap(file.client_id)
    /\ Cfg.client_secret = Unwrap(file.client_secret)

\* C14 witness: the defaults were applied, /done wrote the file and main wrote it
\* again, and the file now gives the default address and port
C14_Witness ==
  /\ Len(fileWrites) = 2
  /\ fileWrites[1].by = "done" /\ fileWrites[1].ok
  /\ fileWrites[2].by = "main" /\ fileWrites[2].ok
  /\ Cfg.address = DefaultAddress
  /\ Cfg.port = DefaultPort
  /\ file = fileWrites[2].content
  /\ file.port = Some(DefaultPort)

\* the step is the handling of one request of the given route
RouteStep(route) == handled' = handled + 1 /\ last'.route = route

\* what a redirecting handler must leave alone
RedirectFrame ==
  UNCHANGED <<file, fileWrites, notified, config, listener, exited, issued,
              accepted, tokenReqs, access, pc>>

\* C15: GET / answers with a redirect to /done when the session holds a code and
\* to /auth when it holds none; GET /done handled while no code is stored answers
\* with a redirect to /auth; neither writes the file, signals shutdown or changes
\* the session.  The config a run builds holds no code whatever the file holds,
\* so GET / redirects to /auth as long as no callback has been accepted.
C15_IndexAndDoneRedirect ==
  [][ /\ RouteStep("/")
          => /\ last'.resp = "redirect"
             /\ last'.loc = IF IsSome(Cfg.user_auth_code) THEN "/done" ELSE "/auth"
             /\ RedirectFrame
      /\ (RouteStep("/done") /\ Cfg.user_auth_code = None)
          => /\ last'.resp = "redirect"
             /\ last'.loc = "/auth"
             /\ RedirectFrame
      /\ (config = None /\ config' # None)
          => Unwrap(config').user_auth_code = None
      /\ (RouteStep("/") /\ accepted = <<>>) => last'.loc = "/auth" ]_vars

\* C15 witness: the config file holds the code an earlier run left in it, and
\* the first request of the run, GET /, was redirected to /auth
C15_Witness ==
  /\ file.user_auth_code # <<>>
  /\ handled = 1
  /\ last.route = "/"
  /\ last.resp = "redirect"
  /\ last.loc = "/auth"

\* C16: every authorization URL an /auth redirect pointed to and every token
\* request of the run carry the redirect URI http://{address}:{port}/callback of
\* the running config; for a config file without address and port that is
\* http://127.0.0.1:3000/callback.
C16_SameRedirectUri ==
  config # None =>
    LET uri == <<"http://", Cfg.address, ":", Cfg.port, "/callback">> IN
    /\ \A i \in DOMAIN issued : issued[i].redirect_uri = uri
    /\ \A j \in DOMAIN tokenReqs : tokenReqs[j].redirect_uri = uri
    /\ (Cfg.address = DefaultAddress /\ Cfg.port = DefaultPort)
         => uri = <<"http://", "127.0.0.1", ":", 3000, "/callback">>
    /\ (fileWrites = <<>> /\ file.address = <<>> /\ file.port = <<>>)
         => uri = <<"http://", "127.0.0.1", ":", 3000, "/callback">>

\* C16 witness: a run from a config file without address and port sent an
\* authorization URL and a token request
C16_Witness ==
  /\ issued # <<>>
  /\ tokenReqs # <<>>
  /\ Cfg.address = DefaultAddress
  /\ Cfg.port = DefaultPort
  /\ issued[1].redirect_uri = tokenReqs[1].redirect_uri

\* C17 as stated: no write of the config file is made while the lock on the
\* shared config is held.
C17_NoFileWriteUnderLock ==
  \A i \in DOMAIN fileWrites : ~fileWrites[i].locked

\* C18: a downstream call is made only when a UserAccess exists, and a
\* UserAccess exists only with the TokenSet of a successful exchange and after
\* the who-am-I call; when the exchange fails, or the who-am-I call fails, the
\* run has ended with that error, no UserAccess exists and no downstream call
\* was made.
C18_NoPartialSuccess ==
  /\ downstream # <<>> => IsSome(userAccess)
  /\ IsSome(userAccess)
       => /\ accResult.kind = "Ok"
          /\ IsSome(access)
          /\ Unwrap(userAccess).access = Unwrap(access)
          /\ Len(tokenReqs) = 1
          /\ meReqs = 1
  /\ accResult.kind = "Err"
       => /\ mainResult = accResult.err
          /\ pc = "end"
          /\ access = None /\ userAccess = None
          /\ meReqs = 0 /\ downstream = <<>>
  /\ (meReqs > 0 /\ userAccess = None)
       => /\ mainResult = "RequestError"
          /\ pc = "end"
          /\ downstream = <<>>

\* C18 witness: the exchange gave a TokenSet, the who-am-I call failed, and the
\* run ended with RequestError
C18_Witness ==
  /\ IsSome(access)
  /\ meReqs = 1
  /\ userAccess = None
  /\ mainResult = "RequestError"

\* the main flow has returned an error
MainFailed == mainResult \notin {"running", "Ok"}

\* C19: a run sends at most one token request and at most one who-am-I
\* request; a failed exchange or who-am-I call is the error main returns, and
\* once main has returned an error no request is sent, the listener is not
\* started again and nothing else happens.
C19_NoRetry ==
  /\ [](/\ Len(tokenReqs) <= 1
        /\ meReqs <= 1
        /\ accResult.kind = "Err" => (mainResult = accResult.err /\ MainFailed)
        /\ (meReqs = 1 /\ userAccess = None) => mainResult = "RequestError")
  /\ [][MainFailed => Halted]_vars

\* C19 witness: the one token request of the run was answered with an error
\* body and main returned ExpiredUserCode
C19_Witness ==
  /\ Len(tokenReqs) = 1
  /\ accResult.resp = "error_body"
  /\ mainResult = "ExpiredUserCode"
  /\ meReqs = 0

\* the main flow has not got past rocket.launch().await
MainBlocked ==
  /\ tokenReqs = <<>>
  /\ meReqs = 0
  /\ access = None
  /\ pc \notin {"exchange", "whoami", "write"}

\* while no /done has signalled shutdown the main flow does not proceed to the
\* token exchange, and it leaves the wait only when the listener has stopped
BlockedUntilNotified ==
  /\ [](notified = 0 => MainBlocked)
  /\ [][(pc = "waiting" /\ pc' # "waiting")
          => (listener = "stopped" /\ notified > 0)]_vars

\* C20 as stated: when a callback has been accepted and /done has then been
\* handled, the listener eventually stops and the main flow eventually sends
\* the token request; and the main flow stays blocked as long as the roundtrip
\* is not completed.
C20_DoneLeadsToExchange ==
  /\ (accepted # <<>> /\ last.route = "/done")
       ~> (listener = "stopped" /\ tokenReqs # <<>>)
  /\ BlockedUntilNotified

\* C20 amended: when a callback has been accepted and /done has then been
\* handled, and whenever /done has signalled shutdown, then eventually the
\* listener has stopped and the token request is sent, or the process has been
\* terminated by exit(1) (the file write of /done failed, or a callback still in
\* flight aborted); and the main flow stays blocked as long as no /done has
\* signalled shutdown.
C20_NotifiedLeadsToExchange ==
  /\ (accepted # <<>> /\ last.route = "/done")
       ~> (exited # "no" \/ (listener = "stopped" /\ tokenReqs # <<>>))
  /\ notified > 0
       ~> (exited # "no" \/ (listener = "stopped" /\ tokenReqs # <<>>))
  /\ BlockedUntilNotified

\* C20 witness: /done was the last request handled, the listener has stopped
\* and the main flow has sent the token request and waits for the who-am-I call
C20_Witness ==
  /\ last.route = "/done"
  /\ last.resp = "ok"
  /\ notified = 1
  /\ listener = "stopped"
  /\ Len(tokenReqs) = 1
  /\ pc = "whoami"

\* C21: once the session holds an authorization code, no step of the run leaves
\* it without one; after the first accepted callback every GET / is redirected
\* to /done and no GET /done is redirected to /auth.
C21_CodeNeverCleared ==
  [][ /\ (config # None /\ ~needs_auth(Cfg))
          => (config' # None /\ ~needs_auth(Unwrap(config')))
      /\ (accepted # <<>> /\ RouteStep("/")) => last'.loc = "/done"
      /\ (accepted # <<>> /\ RouteStep("/done")) => last'.resp # "redirect" ]_vars

\* C21 witness: a callback was accepted, /done signalled shutdown, and a GET /
\* handled after that was still redirected to /done
C21_Witness ==
  /\ accepted # <<>>
  /\ notified = 1
  /\ last.route = "/"
  /\ last.loc = "/done"
  /\ ~needs_auth(Cfg)

\* the writes of /done that were followed by shutdown.notify()
ShutdownSignals ==
  {i \in DOMAIN fileWrites : fileWrites[i].by = "done" /\ fileWrites[i].ok}

\* C22 as stated: the code the session holds after /done has signalled
\* shutdown, and the code every token request carries, is the code the session
\* held when /done signalled shutdown.
C22_ExchangedCodeIsCodeAtShutdown ==
  \A i \in ShutdownSignals :
    /\ Cfg.user_auth_code = fileWrites[i].code
    /\ \A j \in DOMAIN tokenReqs : Some(tokenReqs[j].code) = fileWrites[i].code

\* C23 as stated: main never reads the selection vector at an index that is not
\* below its length, and a run whose authorization and selected actions all
\* succeeded has ended normally once main is over.
C23_SelectionReadsInBounds ==
  /\ mainResult # "Panic"
  /\ (pc = "end" /\ IsSome(userAccess) /\ mainResult # "RequestError")
       => mainResult = "Ok"

\* the last entry of the selection list, counted from 0
LastEntry == Len(ACTION_NAMES) - 1

\* what one event does to the selection list
SelectionListStep ==
  /\ (handle_events("MoveUp") /\ list_index = 0)
       => UNCHANGED <<list_index, selected, list_strings>>
  /\ (handle_events("MoveDown") /\ list_index = LastEntry)
       => UNCHANGED <<list_index, selected, list_strings>>
  /\ (handle_events("MoveUp") /\ list_index > 0)
       => (list_index' = list_index - 1 /\ selected' = selected)
  /\ (handle_events("MoveDown") /\ list_index < LastEntry)
       => (list_index' = list_index + 1 /\ selected' = selected)
  /\ handle_events("Select")
       => /\ list_index' = list_index
          /\ \A i \in 1..Len(ACTION_NAMES) :
               selected'[i] = IF i = list_index + 1 THEN ~selected[i]
                                                    ELSE selected[i]
  /\ pc # "select" => UNCHANGED <<list_index, selected, list_strings>>

\* C24: the cursor of the selection list stays on one of its entries and every
\* displayed string is list_format of the entry's name and flag; previous on
\* the first entry and next on the last leave the list as it is, a cursor move
\* changes no flag, and select flips the flag under the cursor and no other.
C24_SelectionListConsistent ==
  /\ [](/\ list_index \in 0..LastEntry
        /\ Len(selected) = Len(ACTION_NAMES)
        /\ Len(list_strings) = Len(ACTION_NAMES)
        /\ \A i \in 1..Len(ACTION_NAMES) :
             list_strings[i] = list_format(ACTION_NAMES[i], selected[i]))
  /\ [][SelectionListStep]_vars

\* C24 witness: the cursor was moved to the last entry and the first and the
\* last flag were flipped on the way, and the list displays that
C24_Witness ==
  /\ pc = "select"
  /\ list_index = LastEntry
  /\ selected = <<FALSE, TRUE, TRUE>>
  /\ list_strings[1] = <<"[", " ", "] ", ACTION_NAMES[1]>>
  /\ list_strings[3] = <<"[", "X", "] ", ACTION_NAMES[3]>>

====
